---- MODULE Spec2Model ----
(***************************************************************************)
(* mini-webpack (src/mini-webpack/index.js): one process loads the module, *)
(* init() reads the configuration and calls build() once.  build() checks  *)
(* the entry, reads the template, createGraph() extracts the entry asset   *)
(* and walks the queue, the template is rendered and the bundle written.   *)
(*                                                                         *)
(* Strings that are paths or import specifiers are sequences of segments:  *)
(* "./b.js" is <<".", "b.js">>, the empty string is <<>>.  Absolute paths  *)
(* are written relative to the working directory of the process.           *)
(***************************************************************************)
EXTENDS Integers, Sequences, FiniteSets, TLC

\* Bounds of the checked file sets and runs.
MaxImports == 3
MaxRuns == 2

\* ---------------------------------------------------------------------------
\* The file set the process runs on.

PathA == <<"example", "a.js">>
PathB == <<"example", "b.js">>
\* A second b.js, one directory down.
PathC == <<"example", "sub", "b.js">>
Files == {PathA, PathB, PathC}

Kinds == {"ok", "bad", "missing"}
TemplateKinds == {"ok", "malformed", "missing"}

\* Import specifiers as written in the sources; <<>> is the empty string.
Specifiers ==
    { <<>>,
      <<".", "a.js">>,
      <<".", "b.js">>,
      <<".", "sub", "b.js">> }

\* Values of options.entry; hasEntry = FALSE is an options object without
\* the key (no configuration file, or one that does not set it).
EntryA == <<".", "example", "a.js">>
EntryC == <<".", "example", "sub", "b.js">>
Configs ==
    { [hasEntry |-> FALSE, entry |-> <<>>],
      [hasEntry |-> TRUE, entry |-> <<>>],
      [hasEntry |-> TRUE, entry |-> EntryA],
      [hasEntry |-> TRUE, entry |-> EntryC] }

NoAsset == [filePath |-> <<>>, code |-> <<>>, deps |-> <<>>, id |-> 0, mapping |-> <<>>]

VARIABLES
    fs,         \* source files: kind and import specifiers of each file
    template,   \* state of ./bundle.ejs
    options,    \* the options object init() hands to build()
    outFile,    \* content of output.path/output.filename, <<>> when absent
    id,         \* the module-level id counter
    pc,         \* position of the process
    queue,      \* createGraph's queue
    i,          \* index of the for loop (1-based)
    len,        \* the loop bound, read once when the loop starts
    j,          \* position of forEach in queue[i].deps (1-based)
    code,       \* the rendered bundle
    error,      \* error that ended the build, "" when none
    reads,      \* readFileSync calls of this process
    writes,     \* writeFileSync calls of this process
    run,        \* number of the current process run
    prev        \* outcome of the previous process run

vars == <<fs, template, options, outFile, id, pc, queue, i, len, j, code,
          error, reads, writes, run, prev>>

env == <<fs, template, options>>

\* ---------------------------------------------------------------------------
\* Paths.

RECURSIVE NormalizeFrom(_, _)
NormalizeFrom(acc, segs) ==
    IF segs = <<>> THEN acc
    ELSE LET s == Head(segs) IN
         IF s = "." THEN NormalizeFrom(acc, Tail(segs))
         ELSE IF s = ".."
              THEN NormalizeFrom(IF acc = <<>> THEN acc
                                 ELSE SubSeq(acc, 1, Len(acc) - 1), Tail(segs))
              ELSE NormalizeFrom(Append(acc, s), Tail(segs))

\* path.resolve(base, rel) for relative arguments: both are joined onto the
\* working directory and "." / ".." segments are folded away.
Resolve(base, rel) == NormalizeFrom(<<>>, base \o rel)

\* path.dirname
Dirname(p) == IF p = <<>> THEN <<>> ELSE SubSeq(p, 1, Len(p) - 1)

\* Variant: specifiers are resolved against the directory of the importing
\* file.
BaseDirOfImporter ==
    IF pc = "loop" /\ i <= Len(queue)
    THEN Dirname(queue[i].filePath)
    ELSE <<".", "example">>

\* The directory every specifier is resolved against.
BaseDir == <<".", "example">>

\* fs.readFileSync(filePath): the file the path names, seen from the working
\* directory.
ReadFile(filePath) ==
    LET p == NormalizeFrom(<<>>, filePath) IN
    IF p \in Files /\ fs[p].kind # "missing"
    THEN [found |-> TRUE, kind |-> fs[p].kind, imports |-> fs[p].imports]
    ELSE [found |-> FALSE, kind |-> "missing", imports |-> <<>>]

\* babel.transformFromAst: the CommonJS text of a module; opaque, a function
\* of the source text only.
Transform(imports) == <<"commonjs", imports>>

\* ---------------------------------------------------------------------------
\* createAsset(filePath) run with the counter at curId: the asset and the
\* counter afterwards, or the error thrown.

\* Variant: the counter is read but not advanced.
CreateAssetNoIncrement(filePath, curId) ==
    LET src == ReadFile(filePath) IN
    IF ~src.found
    THEN [ok |-> FALSE, error |-> "ReadError", asset |-> NoAsset, id |-> curId]
    ELSE IF src.kind = "bad"
    THEN [ok |-> FALSE, error |-> "ParseError", asset |-> NoAsset, id |-> curId]
    ELSE [ok |-> TRUE, error |-> "",
          asset |-> [filePath |-> filePath,
                     code |-> Transform(src.imports),
                     deps |-> src.imports,
                     id |-> curId,
                     mapping |-> <<>>],
          id |-> curId]

\* Variant: id: ++id instead of id: id++.
CreateAssetPreIncrement(filePath, curId) ==
    LET src == ReadFile(filePath) IN
    IF ~src.found
    THEN [ok |-> FALSE, error |-> "ReadError", asset |-> NoAsset, id |-> curId]
    ELSE IF src.kind = "bad"
    THEN [ok |-> FALSE, error |-> "ParseError", asset |-> NoAsset, id |-> curId]
    ELSE [ok |-> TRUE, error |-> "",
          asset |-> [filePath |-> filePath,
                     code |-> Transform(src.imports),
                     deps |-> src.imports,
                     id |-> curId + 1,
                     mapping |-> <<>>],
          id |-> curId + 1]

\* Variant: the id is taken before the file is read, so a failing call has
\* used one up.
CreateAssetEagerId(filePath, curId) ==
    LET src == ReadFile(filePath) IN
    IF ~src.found
    THEN [ok |-> FALSE, error |-> "ReadError", asset |-> NoAsset, id |-> curId + 1]
    ELSE IF src.kind = "bad"
    THEN [ok |-> FALSE, error |-> "ParseError", asset |-> NoAsset, id |-> curId + 1]
    ELSE [ok |-> TRUE, error |-> "",
          asset |-> [filePath |-> filePath,
                     code |-> Transform(src.imports),
                     deps |-> src.imports,
                     id |-> curId,
                     mapping |-> <<>>],
          id |-> curId + 1]

CreateAsset(filePath, curId) ==
    LET src == ReadFile(filePath) IN
    IF ~src.found
    THEN [ok |-> FALSE, error |-> "ReadError", asset |-> NoAsset, id |-> curId]
    ELSE IF src.kind = "bad"
    THEN [ok |-> FALSE, error |-> "ParseError", asset |-> NoAsset, id |-> curId]
    ELSE [ok |-> TRUE, error |-> "",
          asset |-> [filePath |-> filePath,
                     code |-> Transform(src.imports),
                     deps |-> src.imports,
                     id |-> curId,
                     mapping |-> <<>>],
          id |-> curId + 1]

\* Variant: a key that is already there keeps its value.
SetKeyKeepFirst(mapping, key, value) ==
    [k \in (DOMAIN mapping) \cup {key} |->
        IF k \in DOMAIN mapping THEN mapping[k] ELSE value]

\* obj[key] = value on a mapping object.
SetKey(mapping, key, value) ==
    [k \in (DOMAIN mapping) \cup {key} |-> IF k = key THEN value ELSE mapping[k]]

\* The projection build() hands to the template.
Data(q) ==
    [k \in 1..Len(q) |->
        [filePath |-> q[k].filePath, code |-> q[k].code,
         mapping |-> q[k].mapping, id |-> q[k].id]]

\* ejs.render(template, {data}): a pure function of the data.
Render(data) == <<"bundle", data>>

\* ---------------------------------------------------------------------------
\* Initial state: the module has been loaded (let id = 0) and init() has put
\* the options together; build() is about to run.

FileOf(kind, imports) == [kind |-> kind, imports |-> imports]

Init ==
    /\ \E ka \in Kinds, kb \in Kinds, kc \in Kinds :
       \E la \in 0..MaxImports :
       \E lb \in 0..(MaxImports - la) :
       \E lc \in 0..(MaxImports - la - lb) :
       \E ia \in [1..la -> Specifiers], ib \in [1..lb -> Specifiers],
          ic \in [1..lc -> Specifiers] :
          /\ (ka # "ok" => la = 0)
          /\ (kb # "ok" => lb = 0)
          /\ (kc # "ok" => lc = 0)
          /\ fs = [p \in Files |->
                     IF p = PathA THEN FileOf(ka, ia)
                     ELSE IF p = PathB THEN FileOf(kb, ib)
                     ELSE FileOf(kc, ic)]
    /\ template \in TemplateKinds
    /\ options \in Configs
    /\ outFile = <<>>
    /\ id = 0
    /\ pc = "build"
    /\ queue = <<>>
    /\ i = 1
    /\ len = 0
    /\ j = 1
    /\ code = <<>>
    /\ error = ""
    /\ reads = 0
    /\ writes = 0
    /\ run = 1
    /\ prev = [pc |-> "none", error |-> "", queue |-> <<>>, code |-> <<>>]

\* ---------------------------------------------------------------------------
\* build(options)

\* Variant: the error is recorded and the build carries on to the write.
FailSwallow(err) ==
    /\ pc' = "write"
    /\ error' = err

Fail(err) ==
    /\ pc' = "failed"
    /\ error' = err

\* Variant: the template is read before the entry is checked.
BuildNoEntryLate ==
    /\ pc = "build"
    /\ (~options.hasEntry \/ options.entry = <<>>)
    /\ reads' = reads + 1
    /\ Fail("ConfigError")
    /\ UNCHANGED <<env, outFile, id, queue, i, len, j, code, writes, run, prev>>

\* if (!entry) throw
BuildNoEntry ==
    /\ pc = "build"
    /\ (~options.hasEntry \/ options.entry = <<>>)
    /\ Fail("ConfigError")
    /\ UNCHANGED <<env, outFile, id, queue, i, len, j, code, reads, writes, run, prev>>

\* fs.readFileSync(templateFilePath)
BuildReadTemplate ==
    /\ pc = "build"
    /\ options.hasEntry /\ options.entry # <<>>
    /\ reads' = reads + 1
    /\ IF template = "missing"
       THEN Fail("ReadError")
       ELSE pc' = "createGraph" /\ error' = error
    /\ UNCHANGED <<env, outFile, id, queue, i, len, j, code, writes, run, prev>>

\* const mainAsset = createAsset(entry); const queue = [mainAsset];
\* for (let i = 0, len = queue.length; ...
CreateGraphMain ==
    /\ pc = "createGraph"
    /\ LET r == CreateAsset(options.entry, id) IN
       /\ reads' = reads + 1
       /\ id' = r.id
       /\ IF r.ok
          THEN /\ queue' = <<r.asset>>
               /\ i' = 1
               /\ len' = 1
               /\ j' = 1
               /\ pc' = "loop"
               /\ error' = error
          ELSE /\ Fail(r.error)
               /\ UNCHANGED <<queue, i, len, j>>
    /\ UNCHANGED <<env, outFile, code, writes, run, prev>>

\* Variant: a path that already has an asset in the queue is not extracted
\* again; the specifier is mapped to the asset that exists.
ForEachDepDedup ==
    /\ pc = "loop"
    /\ i <= len
    /\ j <= Len(queue[i].deps)
    /\ LET relativePath == queue[i].deps[j]
           target == Resolve(BaseDir, relativePath)
           seen == {k \in 1..Len(queue) : queue[k].filePath = target}
           r == CreateAsset(target, id)
       IN
       /\ relativePath # <<>>
       /\ IF seen # {}
          THEN /\ queue' = [queue EXCEPT ![i].mapping =
                               SetKey(queue[i].mapping, relativePath,
                                      queue[CHOOSE k \in seen : TRUE].id)]
               /\ j' = j + 1
               /\ UNCHANGED <<pc, error, reads, id>>
          ELSE /\ reads' = reads + 1
               /\ id' = r.id
               /\ IF r.ok
                  THEN /\ queue' = Append(
                             [queue EXCEPT ![i].mapping =
                                 SetKey(queue[i].mapping, relativePath, r.asset.id)],
                             r.asset)
                       /\ j' = j + 1
                       /\ UNCHANGED <<pc, error>>
                  ELSE /\ Fail(r.error)
                       /\ UNCHANGED <<queue, j>>
    /\ UNCHANGED <<env, outFile, i, len, code, writes, run, prev>>

\* Variant: the child goes right behind the asset being processed instead of
\* to the back of the queue.
ForEachDepInsertFront ==
    /\ pc = "loop"
    /\ i <= len
    /\ j <= Len(queue[i].deps)
    /\ LET relativePath == queue[i].deps[j]
           r == CreateAsset(Resolve(BaseDir, relativePath), id)
           q == [queue EXCEPT ![i].mapping =
                    SetKey(queue[i].mapping, relativePath, r.asset.id)]
       IN
       /\ relativePath # <<>>
       /\ reads' = reads + 1
       /\ id' = r.id
       /\ IF r.ok
          THEN /\ queue' = SubSeq(q, 1, i) \o <<r.asset>>
                               \o SubSeq(q, i + 1, Len(q))
               /\ j' = j + 1
               /\ UNCHANGED <<pc, error>>
          ELSE /\ Fail(r.error)
               /\ UNCHANGED <<queue, j>>
    /\ UNCHANGED <<env, outFile, i, len, code, writes, run, prev>>

\* One call of the forEach callback with a non-empty specifier.
ForEachDep ==
    /\ pc = "loop"
    /\ i <= len
    /\ j <= Len(queue[i].deps)
    /\ LET relativePath == queue[i].deps[j]
           r == CreateAsset(Resolve(BaseDir, relativePath), id)
       IN
       /\ relativePath # <<>>
       /\ reads' = reads + 1
       /\ id' = r.id
       /\ IF r.ok
          THEN /\ queue' = Append(
                     [queue EXCEPT ![i].mapping =
                         SetKey(queue[i].mapping, relativePath, r.asset.id)],
                     r.asset)
               /\ j' = j + 1
               /\ UNCHANGED <<pc, error>>
          ELSE /\ Fail(r.error)
               /\ UNCHANGED <<queue, j>>
    /\ UNCHANGED <<env, outFile, i, len, code, writes, run, prev>>

\* Variant: the id is taken before the specifier is tested.
ForEachSkipConsumesId ==
    /\ pc = "loop"
    /\ i <= len
    /\ j <= Len(queue[i].deps)
    /\ queue[i].deps[j] = <<>>
    /\ j' = j + 1
    /\ id' = id + 1
    /\ UNCHANGED <<env, outFile, pc, queue, i, len, code, error, reads, writes, run, prev>>

\* One call of the forEach callback with an empty specifier: if (relativePath)
\* is false.
ForEachSkip ==
    /\ pc = "loop"
    /\ i <= len
    /\ j <= Len(queue[i].deps)
    /\ queue[i].deps[j] = <<>>
    /\ j' = j + 1
    /\ UNCHANGED <<env, outFile, id, pc, queue, i, len, code, error, reads, writes, run, prev>>

\* Variant: the loop header has no i++, the same asset stays in front.
LoopNextNoAdvance ==
    /\ pc = "loop"
    /\ i <= len
    /\ j > Len(queue[i].deps)
    /\ UNCHANGED vars

\* forEach is through: i++
LoopNext ==
    /\ pc = "loop"
    /\ i <= len
    /\ j > Len(queue[i].deps)
    /\ i' = i + 1
    /\ j' = 1
    /\ UNCHANGED <<env, outFile, id, pc, queue, len, code, error, reads, writes, run, prev>>

\* i < len is false: return queue
CreateGraphReturn ==
    /\ pc = "loop"
    /\ i > len
    /\ pc' = "render"
    /\ UNCHANGED <<env, outFile, id, queue, i, len, j, code, error, reads, writes, run, prev>>

\* Variant: the projection is written back into the assets, which lose
\* their deps.
BuildRenderInPlace ==
    /\ pc = "render"
    /\ queue' = [k \in 1..Len(queue) |-> [queue[k] EXCEPT !.deps = <<>>]]
    /\ IF template = "malformed"
       THEN Fail("TemplateError") /\ code' = code
       ELSE /\ code' = Render(Data(queue))
            /\ pc' = "write"
            /\ error' = error
    /\ UNCHANGED <<env, outFile, id, i, len, j, reads, writes, run, prev>>

\* const data = createGraph(entry).map(...); const code = ejs.render(...)
BuildRender ==
    /\ pc = "render"
    /\ IF template = "malformed"
       THEN Fail("TemplateError") /\ code' = code
       ELSE /\ code' = Render(Data(queue))
            /\ pc' = "write"
            /\ error' = error
    /\ UNCHANGED <<env, outFile, id, queue, i, len, j, reads, writes, run, prev>>

\* fs.writeFileSync(`${output.path}/${output.filename}`, code)
BuildWrite ==
    /\ pc = "write"
    /\ outFile' = code
    /\ writes' = writes + 1
    /\ pc' = "done"
    /\ UNCHANGED <<env, id, queue, i, len, j, code, error, reads, run, prev>>

\* Variant: the counter survives from one run to the next.
StartProcessKeepId ==
    /\ pc \in {"done", "failed"}
    /\ run < MaxRuns
    /\ run' = run + 1
    /\ prev' = [pc |-> pc, error |-> error, queue |-> queue, code |-> code]
    /\ pc' = "build"
    /\ queue' = <<>>
    /\ i' = 1
    /\ len' = 0
    /\ j' = 1
    /\ code' = <<>>
    /\ error' = ""
    /\ reads' = 0
    /\ writes' = 0
    /\ UNCHANGED <<env, outFile, id>>

\* The process has ended; the program is started again on the same files.
\* Loading the module runs "let id = 0" again.
StartProcess ==
    /\ pc \in {"done", "failed"}
    /\ run < MaxRuns
    /\ run' = run + 1
    /\ prev' = [pc |-> pc, error |-> error, queue |-> queue, code |-> code]
    /\ id' = 0
    /\ pc' = "build"
    /\ queue' = <<>>
    /\ i' = 1
    /\ len' = 0
    /\ j' = 1
    /\ code' = <<>>
    /\ error' = ""
    /\ reads' = 0
    /\ writes' = 0
    /\ UNCHANGED <<env, outFile>>

Next ==
    \/ BuildNoEntry
    \/ BuildReadTemplate
    \/ CreateGraphMain
    \/ ForEachDep
    \/ ForEachSkip
    \/ LoopNext
    \/ CreateGraphReturn
    \/ BuildRender
    \/ BuildWrite
    \/ StartProcess

Spec == Init /\ [][Next]_vars

\* The file sets of a.js and b.js importing themselves, each other or the
\* empty specifier; sub/b.js is there and imports nothing.
CycleSpecifiers == { <<>>, <<".", "a.js">>, <<".", "b.js">> }

CycleInit ==
    /\ Init
    /\ fs[PathC] = FileOf("ok", <<>>)
    /\ \A p \in {PathA, PathB} :
           \A n \in 1..Len(fs[p].imports) : fs[p].imports[n] \in CycleSpecifiers

\* The code is synchronous and single-threaded: a process that can take its
\* next step takes it.
CycleSpec == CycleInit /\ [][Next]_vars /\ WF_vars(Next)

\* ---------------------------------------------------------------------------
\* Properties.

\* createGraph has returned its queue to build().
Returned == pc \in {"render", "write", "done"}

Ids(q) == {q[k].id : k \in 1..Len(q)}

NonEmptyDeps(asset) ==
    {asset.deps[n] : n \in 1..Len(asset.deps)} \ {<<>>}

\* C1: in the graph createGraph returns, the ids of the assets are exactly
\* 0..N-1 for N assets, and no two assets share an id.
C1_IdsContiguous ==
    Returned =>
        /\ Ids(queue) = 0..(Len(queue) - 1)
        /\ \A k, m \in 1..Len(queue) : queue[k].id = queue[m].id => k = m

C1_Witness == pc = "done" /\ Len(queue) >= 3

\* C2: after createGraph returns, every non-empty specifier in the deps of
\* every asset (root or not) has a mapping entry, and the entry is the id of
\* an asset of the graph.
C2_EveryDepMapped ==
    Returned =>
        \A k \in 1..Len(queue) :
            \A s \in NonEmptyDeps(queue[k]) :
                /\ s \in DOMAIN queue[k].mapping
                /\ queue[k].mapping[s] \in Ids(queue)

\* C3: when createGraph returns, the loop has gone over every asset of the
\* queue, so every file an asset of the graph imports has an asset of its
\* own in the graph (the graph is closed under imports).
C3_QueueExhausted ==
    Returned =>
        /\ i > Len(queue)
        /\ \A k \in 1..Len(queue) :
               \A s \in NonEmptyDeps(queue[k]) :
                   \E m \in 1..Len(queue) :
                       queue[m].filePath = Resolve(BaseDir, s)

\* The file set is the chain a.js -> b.js -> sub/b.js cut after n files,
\* entered at a.js.
ChainImports(n) ==
    [p \in Files |->
        IF p = PathA /\ n >= 2 THEN << <<".", "b.js">> >>
        ELSE IF p = PathB /\ n >= 3 THEN << <<".", "sub", "b.js">> >>
        ELSE <<>>]

IsChain(n) ==
    /\ options = [hasEntry |-> TRUE, entry |-> EntryA]
    /\ \A p \in Files : fs[p] = FileOf("ok", ChainImports(n)[p])

ChainPath(k) == IF k = 1 THEN EntryA ELSE IF k = 2 THEN PathB ELSE PathC

\* C4: for a linear chain of n files createGraph returns n assets with the
\* ids 0..n-1 in chain order, asset k maps its one specifier to id k+1 and
\* the last asset has an empty mapping.
C4_LinearChain ==
    \A n \in 1..3 :
        (Returned /\ IsChain(n)) =>
            /\ Len(queue) = n
            /\ \A k \in 1..n :
                   /\ queue[k].id = k - 1
                   /\ queue[k].filePath = ChainPath(k)
                   /\ IF k < n
                      THEN /\ Cardinality(DOMAIN queue[k].mapping) = 1
                           /\ \A s \in DOMAIN queue[k].mapping :
                                  queue[k].mapping[s] = k
                      ELSE DOMAIN queue[k].mapping = {}

\* C5: the first element of the graph createGraph returns has id 0 and the
\* entry path handed to build() as its filePath.
C5_RootIdentity ==
    Returned =>
        /\ Len(queue) >= 1
        /\ queue[1].id = 0
        /\ queue[1].filePath = options.entry

C5_Witness == pc = "done" /\ run = 2 /\ Len(queue) >= 2

C7_NoPartialOutput ==
    /\ (error # "" => writes = 0 /\ outFile = <<>>)
    /\ writes <= 1
    /\ (writes = 1 => /\ pc = "done"
                      /\ i > len
                      /\ outFile = Render(Data(queue)))

C7_Witness ==
    /\ pc = "failed"
    /\ error \in {"ReadError", "ParseError"}
    /\ Len(queue) >= 2
    /\ writes = 0

\* C8: with a missing or empty entry the build fails with the configuration
\* error before anything else: nothing read, no asset, counter untouched,
\* nothing written.
C8_MissingEntry ==
    ((~options.hasEntry \/ options.entry = <<>>) /\ pc # "build") =>
        /\ pc = "failed"
        /\ error = "ConfigError"
        /\ reads = 0
        /\ id = 0
        /\ queue = <<>>
        /\ writes = 0

C8_Witness == pc = "failed" /\ error = "ConfigError" /\ ~options.hasEntry

C8_WitnessEmpty == pc = "failed" /\ error = "ConfigError" /\ options.hasEntry

\* Positions of an asset's deps that resolve to path p.
DepsOnPath(asset, p) ==
    {n \in 1..Len(asset.deps) :
        asset.deps[n] # <<>> /\ Resolve(BaseDir, asset.deps[n]) = p}

\* Number of specifiers resolving to p in the assets at positions 1..k.
RECURSIVE ImportsOfPath(_, _, _)
ImportsOfPath(q, k, p) ==
    IF k = 0 THEN 0
    ELSE Cardinality(DepsOnPath(q[k], p)) + ImportsOfPath(q, k - 1, p)

\* C9: no deduplication by path: every specifier of a processed asset gets
\* an asset of its own, so a path has as many assets behind the root as the
\* processed assets have specifiers resolving to it, all with different ids;
\* an entry importing "./b.js" twice gets assets 1 and 2 for b.js.
C9_NoDedup ==
    Returned =>
        /\ \A p \in Files :
               Cardinality({m \in 2..Len(queue) : queue[m].filePath = p})
                   = ImportsOfPath(queue, i - 1, p)
        /\ \A k, m \in 1..Len(queue) : queue[k].id = queue[m].id => k = m
        /\ (queue[1].deps = << <<".", "b.js">>, <<".", "b.js">> >> =>
               /\ Len(queue) = 3
               /\ queue[2].filePath = PathB /\ queue[2].id = 1
               /\ queue[3].filePath = PathB /\ queue[3].id = 2)

C9_Witness ==
    /\ pc = "done"
    /\ queue[1].deps = << <<".", "b.js">>, <<".", "b.js">> >>
    /\ queue[2].id = 1 /\ queue[3].id = 2

\* C10: after the build, every specifier s in the deps of every asset A is
\* mapped to the id of exactly one asset, whose filePath is s resolved
\* against the directory of A.filePath.
C10_MappingResolves ==
    pc = "done" =>
        \A k \in 1..Len(queue) :
            \A n \in 1..Len(queue[k].deps) :
                LET s == queue[k].deps[n] IN
                /\ s \in DOMAIN queue[k].mapping
                /\ Cardinality(
                     {m \in 1..Len(queue) :
                        /\ queue[m].id = queue[k].mapping[s]
                        /\ queue[m].filePath =
                              Resolve(Dirname(queue[k].filePath), s)}) = 1

\* C11: every build ends, written or failed, whatever the imports of the
\* file set are, cyclic and self-imports included.
C11_Terminates == (pc = "build") ~> (pc \in {"done", "failed"})

\* a.js and b.js import each other and the build of a.js has ended.
C11_Witness ==
    /\ pc = "done"
    /\ options.entry = EntryA
    /\ \E n \in 1..Len(fs[PathA].imports) :
           Resolve(BaseDir, fs[PathA].imports[n]) = PathB
    /\ \E n \in 1..Len(fs[PathB].imports) :
           Resolve(BaseDir, fs[PathB].imports[n]) = PathA

\* a.js imports itself and the build of a.js has ended.
C11_WitnessSelf ==
    /\ pc = "done"
    /\ options.entry = EntryA
    /\ \E n \in 1..Len(fs[PathA].imports) :
           Resolve(BaseDir, fs[PathA].imports[n]) = PathA

\* Resolved paths of the non-empty specifiers among the first n of deps, in
\* the order of deps.
RECURSIVE ChildPaths(_, _)
ChildPaths(deps, n) ==
    IF n = 0 THEN <<>>
    ELSE IF deps[n] = <<>> THEN ChildPaths(deps, n - 1)
         ELSE Append(ChildPaths(deps, n - 1), Resolve(BaseDir, deps[n]))

\* The children of the assets at positions 1..k, parent after parent.
RECURSIVE Discovered(_, _)
Discovered(q, k) ==
    IF k = 0 THEN <<>>
    ELSE Discovered(q, k - 1) \o ChildPaths(q[k].deps, Len(q[k].deps))

InGraph == pc \in {"loop", "render", "write", "done"}

C13_EmptySkipped ==
    /\ [][(pc = "loop" /\ i <= len /\ j <= Len(queue[i].deps)
             /\ queue[i].deps[j] = <<>>)
            => (/\ id' = id
                /\ reads' = reads
                /\ queue' = queue
                /\ pc' = "loop"
                /\ i' = i
                /\ j' = j + 1)]_vars
    /\ [](InGraph =>
            /\ \A k \in 1..Len(queue) : <<>> \notin DOMAIN queue[k].mapping
            /\ \A k \in 1..Len(queue) :
                   (k < i) => NonEmptyDeps(queue[k]) = DOMAIN queue[k].mapping)

C13_Witness ==
    /\ pc = "done"
    /\ queue[1].deps = << <<>>, <<".", "b.js">> >>
    /\ Len(queue) = 2
    /\ id = 2
    /\ queue[1].mapping = (<<".", "b.js">> :> 1)

\* C14: whatever the directory of the importing asset, the child a mapping
\* entry points to has the specifier resolved against ./example as its
\* filePath.
C14_FixedBase ==
    InGraph =>
        \A k \in 1..Len(queue) :
            \A s \in DOMAIN queue[k].mapping :
                \A m \in 1..Len(queue) :
                    queue[m].id = queue[k].mapping[s] =>
                        queue[m].filePath = Resolve(<<".", "example">>, s)

\* The entry lies in example/sub and its "./b.js" became example/b.js.
C14_Witness ==
    /\ pc = "done"
    /\ options.entry = EntryC
    /\ <<".", "b.js">> \in DOMAIN queue[1].mapping
    /\ \E m \in 1..Len(queue) :
           /\ queue[m].id = queue[1].mapping[<<".", "b.js">>]
           /\ queue[m].filePath = PathB
           /\ queue[m].filePath # Resolve(Dirname(queue[1].filePath), <<".", "b.js">>)

\* C15: within a process the queue only grows at its end, one asset per
\* createAsset call; id, filePath, code and deps of an asset never change;
\* a mapping changes only on the asset the loop is processing; after
\* createGraph has returned nothing in the queue changes.
C15_Lifecycle ==
    [][(run' = run) =>
        /\ Len(queue') >= Len(queue)
        /\ Len(queue') <= Len(queue) + 1
        /\ (id' # id => Len(queue') = Len(queue) + 1)
        /\ \A k \in 1..Len(queue) :
               /\ queue'[k].id = queue[k].id
               /\ queue'[k].filePath = queue[k].filePath
               /\ queue'[k].code = queue[k].code
               /\ queue'[k].deps = queue[k].deps
               /\ (queue'[k].mapping # queue[k].mapping =>
                       pc = "loop" /\ k = i /\ i <= len)
        /\ (Returned => queue' = queue)]_vars

C15_Witness ==
    /\ pc = "done"
    /\ Len(queue) >= 3
    /\ DOMAIN queue[1].mapping # {}
    /\ queue[2].deps # <<>>

\* C16: a createAsset call that succeeds advances the counter by one and
\* gives an asset with the old counter value as id and an empty mapping; a
\* call that fails leaves the counter as it was.
C16_CounterStep ==
    [][(run' = run /\ reads' = reads + 1 /\ pc \in {"createGraph", "loop"}) =>
        IF pc' = "failed"
        THEN id' = id /\ queue' = queue
        ELSE /\ id' = id + 1
             /\ Len(queue') = Len(queue) + 1
             /\ queue'[Len(queue')].id = id
             /\ queue'[Len(queue')].mapping = <<>>]_vars

\* A call failed after two had succeeded and the counter stands at 2.
C16_Witness ==
    /\ pc = "failed"
    /\ error \in {"ReadError", "ParseError"}
    /\ Len(queue) = 2
    /\ id = 2
    /\ reads = 4

\* C17: all through createGraph the asset at queue position k (from 0) has
\* id k and the counter equals the length of the queue.
C17_Lockstep ==
    InGraph =>
        /\ id = Len(queue)
        /\ \A k \in 1..Len(queue) : queue[k].id = k - 1

C17_Witness ==
    /\ pc = "loop"
    /\ i <= len
    /\ Len(queue) >= 2
    /\ j <= Len(queue[i].deps)

\* C18: every mapping value is greater than the id of the asset that holds
\* the mapping, also when the files import each other.
C18_ChildAfterParent ==
    \A k \in 1..Len(queue) :
        \A s \in DOMAIN queue[k].mapping :
            queue[k].mapping[s] > queue[k].id

\* a.js imports itself and b.js, b.js imports a.js.
C18_Witness ==
    /\ pc = "done"
    /\ options.entry = EntryA
    /\ queue[1].deps = << <<".", "a.js">>, <<".", "b.js">> >>
    /\ queue[3].deps = << <<".", "a.js">> >>
    /\ queue[1].mapping[<<".", "a.js">>] = 1

\* Number of children of the assets in front of position k.
RECURSIVE ChildrenBefore(_, _)
ChildrenBefore(q, k) ==
    IF k <= 1 THEN 0
    ELSE Cardinality({n \in 1..Len(q[k - 1].deps) : q[k - 1].deps[n] # <<>>})
            + ChildrenBefore(q, k - 1)

\* Queue position of the asset extracted for position n of the deps of the
\* asset at position k.
ChildPos(q, k, n) ==
    1 + ChildrenBefore(q, k)
      + Cardinality({n2 \in 1..n : q[k].deps[n2] # <<>>})

Occurrences(asset, s) == {n \in 1..Len(asset.deps) : asset.deps[n] = s}

MappedIds(q) ==
    UNION {{q[k].mapping[s] : s \in DOMAIN q[k].mapping} : k \in 1..Len(q)}

TypeOK ==
    /\ pc \in {"build", "createGraph", "loop", "render", "write", "done", "failed"}
    /\ id \in Nat
    /\ run \in 1..MaxRuns
====
